---- MODULE Spec2Model ----
(***************************************************************************)
(* A model of the auction service: the auction entity (domain/models),    *)
(* the PostgreSQL repository (infrastructure/data) and the two command    *)
(* handlers (infrastructure/services).                                    *)
(*                                                                         *)
(* Option<T> is a sequence of length 0 (None) or 1 (Some).  DateTime<Utc>  *)
(* is a natural number of ticks.  An Errors value is the set of the flags  *)
(* whose bit is set, so bitwise OR is set union and Errors::None is {}.    *)
(* A value with several bits set is no variant of the enum (BitOr          *)
(* transmutes the u16); a result carries its bit pattern, which is what    *)
(* the comparison with Errors::None reads, and transmute_outcomes gives    *)
(* what a reader of the value can get.                                     *)
(* The title and open_bidders fields are carried by no operation that      *)
(* reads them and are left out.                                            *)
(***************************************************************************)
EXTENDS Integers, Sequences, FiniteSets, TLC

VARIABLES
    auction,     \* SpecEntity: the entity under test
    last,        \* SpecEntity: the result of the last try_add_bid call
    auctions,    \* the auctions table: id -> row
    bids,        \* the bids table: rows in insertion order
    seq,         \* the auctions id sequence (last value handed out)
    clock,       \* the wall clock
    calls,       \* the requests in flight and their local state
    started      \* number of calls started so far

vars == <<auction, last, auctions, bids, seq, clock, calls, started>>

(***************************************************************************)
(* Bounds of the model.                                                    *)
(***************************************************************************)
MaxTime == 3
MaxAmount == 3
MaxBids == 2
MaxCalls == 2

Times == 0 .. MaxTime
Values == 1 .. MaxAmount
UserIds == {"x1", "x2", "x3"}
Currencies == {"SEK", "VAC"}

None == << >>
Some(x) == << x >>
IsSome(o) == Len(o) = 1
Unwrap(o) == o[1]
unwrap_or(o, d) == IF o = None THEN d ELSE o[1]

\* An i64, as a two's complement integer of IntBits bits.
IntBits == 5

IntMin == -(2 ^ (IntBits - 1))
IntMax == 2 ^ (IntBits - 1) - 1
Ints == IntMin .. IntMax

wrapping(n) == ((n - IntMin) % (2 ^ IntBits)) + IntMin

(***************************************************************************)
(* Amount and BidData                                                      *)
(***************************************************************************)
Amount(v, c) == [value |-> v, currency |-> c]
BidData(u, a, t) == [user |-> u, amount |-> a, at |-> t]
Bid_new(id, u, a, t) == [id |-> id, user |-> u, amount |-> a, at |-> t]

BidDatas == { BidData(u, Amount(v, c), t) :
                u \in UserIds, v \in Values, c \in Currencies, t \in Times }

(***************************************************************************)
(* Results: Ok(true) or Err(errors)                                        *)
(***************************************************************************)
Ok == [ok |-> TRUE, err |-> {}]
Err(e) == [ok |-> FALSE, err |-> e]

\* The variants of Errors other than None.
ErrorFlags ==
    {"UnknownAuction", "AuctionAlreadyExists", "AuctionHasEnded", "AuctionHasNotStarted",
     "AuctionNotFound", "SellerCannotPlaceBids", "BidCurrencyConversion",
     "InvalidUserData", "MustPlaceBidOverHighestBid", "AlreadyPlacedBid",
     "MustRaiseWithAtLeast", "MustSpecifyAmount"}

\* impl BitOr for Errors: unsafe { transmute(lhs_val | rhs_val) }.  A u16 with
\* at most one bit set is a variant.  One with several bits set is no variant
\* and producing it is undefined behaviour: to the code that reads it (a
\* match, an equality with a variant) it acts as the bit pattern or as any
\* variant with a bit.  The comparison with Errors::None reads the bits, which
\* are not zero.  A flag set of two or more flags in a result stands for
\* such a value; the outcomes are drawn where the value is read.
transmute_outcomes(bits) ==
    IF Cardinality(bits) <= 1 THEN {bits}
    ELSE {bits} \cup { {f} : f \in ErrorFlags }

(***************************************************************************)
(* AuctionFactory::create_auction                                          *)
(***************************************************************************)
TimedAscendingOptions(reserve, raise, frame) ==
    [kind |-> "TimedAscending", reserve_price |-> reserve,
     min_raise |-> raise, time_frame |-> frame]
SingleSealedBidOptions(k) ==
    [kind |-> k, reserve_price |-> 0, min_raise |-> 0, time_frame |-> 0]

CreateAuctionCommand(cur, s, e, raise, reserve, frame, sealed) ==
    [currency |-> cur, starts_at |-> s, ends_at |-> e, min_raise |-> raise,
     reserve_price |-> reserve, time_frame |-> frame,
     single_sealed_bid_options |-> sealed]

create_auction(cmd, user_id) ==
    LET base == [auction_id |-> 0,
                 starts_at  |-> cmd.starts_at,
                 expiry     |-> cmd.ends_at,
                 user       |-> user_id,
                 currency   |-> cmd.currency,
                 bids       |-> << >>]
    IN  IF IsSome(cmd.single_sealed_bid_options)
        THEN [auction_type |-> "SingleSealedBid",
              base |-> base,
              options |-> SingleSealedBidOptions(Unwrap(cmd.single_sealed_bid_options)),
              ends_at |-> None]
        ELSE [auction_type |-> "TimedAscending",
              base |-> base,
              options |-> TimedAscendingOptions(unwrap_or(cmd.reserve_price, 0),
                                                unwrap_or(cmd.min_raise, 0),
                                                unwrap_or(cmd.time_frame, 0)),
              ends_at |-> None]

(***************************************************************************)
(* Auction: validate_bid, try_add_bid, get_bids, winner, has_ended         *)
(***************************************************************************)
validate_bid_no_seller_check(a, bid) ==
    (IF bid.amount.currency # a.base.currency THEN {"BidCurrencyConversion"} ELSE {})
    \cup (IF bid.at < a.base.starts_at THEN {"AuctionHasNotStarted"} ELSE {})
    \cup (IF bid.at > a.base.expiry THEN {"AuctionHasEnded"} ELSE {})

validate_bid(a, bid) ==
    (IF bid.user = a.base.user THEN {"SellerCannotPlaceBids"} ELSE {})
    \cup (IF bid.amount.currency # a.base.currency THEN {"BidCurrencyConversion"} ELSE {})
    \cup (IF bid.at < a.base.starts_at THEN {"AuctionHasNotStarted"} ELSE {})
    \cup (IF bid.at > a.base.expiry THEN {"AuctionHasEnded"} ELSE {})

first_bid(bs) == bs[1]

\* Iterator::max_by_key: of several equally maximal elements the last one.
max_by_key(bs) ==
    LET best == CHOOSE i \in 1 .. Len(bs) :
                    /\ \A j \in 1 .. Len(bs) : bs[j].amount.value <= bs[i].amount.value
                    /\ \A j \in (i + 1) .. Len(bs) : bs[j].amount.value < bs[i].amount.value
    IN  bs[best]

no_user(bs, u) == FALSE

any_user(bs, u) == \E i \in 1 .. Len(bs) : bs[i].user = u

next_id_zero_based(bs) == Len(bs)

next_id(bs) == Len(bs) + 1

push_bid(a, bid) ==
    [a EXCEPT !.base.bids =
        Append(@, Bid_new(next_id(a.base.bids), bid.user, bid.amount, bid.at))]

try_add_sealed_no_user_check(a, time, bid) ==
    IF time > a.base.expiry THEN [auction |-> a, result |-> Err({"AuctionHasEnded"})]
    ELSE IF time < a.base.starts_at
    THEN [auction |-> a, result |-> Err({"AuctionHasNotStarted"})]
    ELSE [auction |-> push_bid(a, bid), result |-> Ok]

try_add_sealed_no_time_check(a, time, bid) ==
    IF any_user(a.base.bids, bid.user)
    THEN [auction |-> a, result |-> Err({"AlreadyPlacedBid"})]
    ELSE [auction |-> push_bid(a, bid), result |-> Ok]

try_add_sealed(a, time, bid) ==
    IF time > a.base.expiry THEN [auction |-> a, result |-> Err({"AuctionHasEnded"})]
    ELSE IF time < a.base.starts_at
    THEN [auction |-> a, result |-> Err({"AuctionHasNotStarted"})]
    ELSE IF any_user(a.base.bids, bid.user)
    THEN [auction |-> a, result |-> Err({"AlreadyPlacedBid"})]
    ELSE [auction |-> push_bid(a, bid), result |-> Ok]

try_add_timed_no_end_check(a, time, bid) ==
    IF time < a.base.starts_at
    THEN [auction |-> a, result |-> Err({"AuctionHasNotStarted"})]
    ELSE IF /\ a.base.bids # << >>
            /\ bid.amount.value <= max_by_key(a.base.bids).amount.value
    THEN [auction |-> a, result |-> Err({"MustPlaceBidOverHighestBid"})]
    ELSE IF /\ a.base.bids # << >>
            /\ bid.amount.value
                 < max_by_key(a.base.bids).amount.value + a.options.min_raise
    THEN [auction |-> a, result |-> Err({"MustRaiseWithAtLeast"})]
    ELSE LET time_extended == time + a.options.time_frame
             current_end == unwrap_or(a.ends_at, a.base.expiry)
             new_end == IF time_extended > current_end
                        THEN time_extended ELSE current_end
         IN  [auction |-> push_bid([a EXCEPT !.ends_at = Some(new_end)], bid),
              result |-> Ok]

try_add_timed_extends_first(a, time, bid) ==
    LET time_extended == time + a.options.time_frame
        current_end == unwrap_or(a.ends_at, a.base.expiry)
        new_end == IF time_extended > current_end THEN time_extended ELSE current_end
        extended == [a EXCEPT !.ends_at = Some(new_end)]
    IN  IF time > a.base.expiry
        THEN [auction |-> a, result |-> Err({"AuctionHasEnded"})]
        ELSE IF time < a.base.starts_at
        THEN [auction |-> a, result |-> Err({"AuctionHasNotStarted"})]
        ELSE IF /\ a.base.bids # << >>
                /\ bid.amount.value <= max_by_key(a.base.bids).amount.value
        THEN [auction |-> extended, result |-> Err({"MustPlaceBidOverHighestBid"})]
        ELSE IF /\ a.base.bids # << >>
                /\ bid.amount.value
                     < max_by_key(a.base.bids).amount.value + a.options.min_raise
        THEN [auction |-> extended, result |-> Err({"MustRaiseWithAtLeast"})]
        ELSE [auction |-> push_bid(extended, bid), result |-> Ok]

try_add_timed_no_max(a, time, bid) ==
    IF time > a.base.expiry THEN [auction |-> a, result |-> Err({"AuctionHasEnded"})]
    ELSE IF time < a.base.starts_at
    THEN [auction |-> a, result |-> Err({"AuctionHasNotStarted"})]
    ELSE IF /\ a.base.bids # << >>
            /\ bid.amount.value <= max_by_key(a.base.bids).amount.value
    THEN [auction |-> a, result |-> Err({"MustPlaceBidOverHighestBid"})]
    ELSE IF /\ a.base.bids # << >>
            /\ bid.amount.value
                 < max_by_key(a.base.bids).amount.value + a.options.min_raise
    THEN [auction |-> a, result |-> Err({"MustRaiseWithAtLeast"})]
    ELSE [auction |-> push_bid([a EXCEPT !.ends_at = Some(time + a.options.time_frame)], bid),
          result |-> Ok]

\* highest_bid.amount().value() + options.min_raise does not fit an i64: the
\* addition panics where overflow checks are compiled in and wraps where they
\* are not.
raise_overflows(a, time, bid) ==
    /\ a.auction_type = "TimedAscending"
    /\ validate_bid(a, bid) = {}
    /\ time <= a.base.expiry /\ time >= a.base.starts_at
    /\ a.base.bids # << >>
    /\ bid.amount.value > max_by_key(a.base.bids).amount.value
    /\ max_by_key(a.base.bids).amount.value + a.options.min_raise \notin Ints

\* The TimedAscending branch, with the sum as a build without overflow checks
\* computes it.
try_add_timed(a, time, bid) ==
    IF time > a.base.expiry THEN [auction |-> a, result |-> Err({"AuctionHasEnded"})]
    ELSE IF time < a.base.starts_at
    THEN [auction |-> a, result |-> Err({"AuctionHasNotStarted"})]
    ELSE IF /\ a.base.bids # << >>
            /\ bid.amount.value <= max_by_key(a.base.bids).amount.value
    THEN [auction |-> a, result |-> Err({"MustPlaceBidOverHighestBid"})]
    ELSE IF /\ a.base.bids # << >>
            /\ bid.amount.value
                 < wrapping(max_by_key(a.base.bids).amount.value + a.options.min_raise)
    THEN [auction |-> a, result |-> Err({"MustRaiseWithAtLeast"})]
    ELSE LET time_extended == time + a.options.time_frame
             current_end == unwrap_or(a.ends_at, a.base.expiry)
             new_end == IF time_extended > current_end
                        THEN time_extended ELSE current_end
         IN  [auction |-> push_bid([a EXCEPT !.ends_at = Some(new_end)], bid),
              result |-> Ok]

try_add_bid(a, time, bid) ==
    LET errors == validate_bid(a, bid)
    IN  IF errors # {} THEN [auction |-> a, result |-> Err(errors)]
        ELSE IF a.auction_type = "SingleSealedBid"
        THEN try_add_sealed(a, time, bid)
        ELSE try_add_timed(a, time, bid)

get_bids_always(a, time) == Some(a.base.bids)

get_bids(a, time) ==
    IF a.auction_type = "SingleSealedBid"
    THEN IF time < a.base.starts_at \/ time > a.base.expiry
         THEN None ELSE Some(a.base.bids)
    ELSE IF time < a.base.starts_at THEN None ELSE Some(a.base.bids)

has_ended_at_expiry(a, time) == time > a.base.expiry

has_ended(a, time) ==
    IF a.auction_type = "SingleSealedBid"
    THEN time > a.base.expiry
    ELSE time > unwrap_or(a.ends_at, a.base.expiry)

\* slice::sort_by with the comparator b.cmp(a): a stable sort, descending by
\* amount, so equal amounts keep their insertion order.
RECURSIVE insert_desc(_, _)
insert_desc(sorted, b) ==
    IF sorted = << >> THEN << b >>
    ELSE IF Head(sorted).amount.value >= b.amount.value
         THEN << Head(sorted) >> \o insert_desc(Tail(sorted), b)
         ELSE << b >> \o sorted

unsorted(bs) == bs

RECURSIVE sort_desc(_)
sort_desc(bs) ==
    IF bs = << >> THEN << >>
    ELSE insert_desc(sort_desc(SubSeq(bs, 1, Len(bs) - 1)), bs[Len(bs)])

winner_before_expiry(a, time) ==
    IF a.base.bids = << >> THEN None
    ELSE IF a.auction_type = "SingleSealedBid"
    THEN IF a.options.kind = "Blind"
         THEN LET b == max_by_key(a.base.bids) IN Some(<< b.amount, b.user >>)
         ELSE IF Len(a.base.bids) = 1
         THEN Some(<< a.base.bids[1].amount, a.base.bids[1].user >>)
         ELSE LET sorted == sort_desc(a.base.bids)
              IN  Some(<< sorted[2].amount, sorted[1].user >>)
    ELSE LET highest_bid == max_by_key(a.base.bids)
         IN  IF highest_bid.amount.value >= a.options.reserve_price
             THEN Some(<< highest_bid.amount, highest_bid.user >>)
             ELSE None

winner_ignoring_reserve(a, time) ==
    IF time <= a.base.expiry \/ a.base.bids = << >> THEN None
    ELSE IF a.auction_type = "SingleSealedBid"
    THEN IF a.options.kind = "Blind"
         THEN LET b == max_by_key(a.base.bids) IN Some(<< b.amount, b.user >>)
         ELSE IF Len(a.base.bids) = 1
         THEN Some(<< a.base.bids[1].amount, a.base.bids[1].user >>)
         ELSE LET sorted == sort_desc(a.base.bids)
              IN  Some(<< sorted[2].amount, sorted[1].user >>)
    ELSE LET highest_bid == max_by_key(a.base.bids)
         IN  Some(<< highest_bid.amount, highest_bid.user >>)

try_get_amount_and_winner(a, time) ==
    IF time <= a.base.expiry \/ a.base.bids = << >> THEN None
    ELSE IF a.auction_type = "SingleSealedBid"
    THEN IF a.options.kind = "Blind"
         THEN LET b == max_by_key(a.base.bids) IN Some(<< b.amount, b.user >>)
         ELSE IF Len(a.base.bids) = 1
         THEN Some(<< a.base.bids[1].amount, a.base.bids[1].user >>)
         ELSE LET sorted == sort_desc(a.base.bids)
              IN  Some(<< sorted[2].amount, sorted[1].user >>)
    ELSE LET highest_bid == max_by_key(a.base.bids)
         IN  IF highest_bid.amount.value >= a.options.reserve_price
             THEN Some(<< highest_bid.amount, highest_bid.user >>)
             ELSE None

\* map_auction_to_model: the view of an auction at `now`.
BidModel(a, b) == [amount |-> b.amount, bidder |-> b.user, at |-> b.at - a.base.starts_at]

map_auction_to_model(a, now) ==
    LET winner_info == try_get_amount_and_winner(a, now)
        shown == get_bids(a, now)
    IN  [id |-> a.base.auction_id,
         starts_at |-> a.base.starts_at,
         expiry |-> a.base.expiry,
         seller |-> a.base.user,
         currency |-> a.base.currency,
         bids |-> IF shown = None THEN << >>
                  ELSE [i \in 1 .. Len(Unwrap(shown)) |-> BidModel(a, Unwrap(shown)[i])],
         price |-> IF winner_info = None THEN None ELSE Some(Unwrap(winner_info)[1]),
         winner |-> IF winner_info = None THEN None ELSE Some(Unwrap(winner_info)[2]),
         has_ended |-> has_ended(a, now)]

(***************************************************************************)
(* SpecEntity: one entity built by the factory, driven by try_add_bid      *)
(* calls with every time and every bid of the bounded input sets.          *)
(***************************************************************************)
Seller == "x1"

Commands ==
    { CreateAuctionCommand("SEK", 1, 2, None, None, None, None),
      CreateAuctionCommand("SEK", 1, 2, Some(2), Some(2), Some(1), None),
      CreateAuctionCommand("SEK", 1, 2, None, None, None, Some("Blind")),
      CreateAuctionCommand("SEK", 1, 2, None, None, None, Some("Vickrey")),
      CreateAuctionCommand("VAC", 2, 1, None, None, None, Some("Blind")) }

SystemIdle ==
    /\ auctions = << >>
    /\ bids = << >>
    /\ seq = 0
    /\ clock = 0
    /\ calls = << >>
    /\ started = 0

EntityIdle ==
    /\ auction = None
    /\ last = None

InitEntity ==
    /\ \E cmd \in Commands : auction = Some(create_auction(cmd, Seller))
    /\ last = None
    /\ SystemIdle

TryAddBid ==
    \E time \in Times, bid \in BidDatas :
        LET a == Unwrap(auction)
            r == try_add_bid(a, time, bid)
        IN  /\ r.result.ok => Len(a.base.bids) < MaxBids
            /\ auction' = Some(r.auction)
            /\ last' = Some(r.result)
            /\ UNCHANGED <<auctions, bids, seq, clock, calls, started>>

NextEntity == TryAddBid

SpecEntity == InitEntity /\ [][NextEntity]_vars

(***************************************************************************)
(* The durable store.  `auctions` maps the id of each committed auctions   *)
(* row to the row, `bids` holds the committed bids rows in insertion       *)
(* order.  A transaction's writes stay in the call's `tx` until it         *)
(* commits; a transaction that is dropped without commit leaves nothing.   *)
(***************************************************************************)
\* impl Display for CurrencyCode
currency_to_string(c) == IF c = "None" THEN "NONE" ELSE c

\* #[derive(Deserialize)] for CurrencyCode: the variant's name, or an error.
currency_from_json(str) == IF str \in {"None", "VAC", "SEK", "DKK"} THEN Some(str) ELSE None

\* The row create_auction inserts (INSERT INTO auctions ... RETURNING id).
auction_row(a) ==
    [starts_at |-> a.base.starts_at,
     expiry |-> a.base.expiry,
     user_id |-> a.base.user,
     currency |-> currency_to_string(a.base.currency),
     auction_type |-> a.auction_type,
     options |-> a.options,
     ends_at |-> IF a.auction_type = "TimedAscending" THEN a.ends_at ELSE None]

\* The row update_auction inserts for a bid (INSERT INTO bids ...).
bid_row(a, b) ==
    [auction_id |-> a.base.auction_id,
     id |-> b.id,
     at |-> b.at,
     amount_value |-> b.amount.value,
     amount_currency |-> currency_to_string(b.amount.currency),
     user_id |-> b.user]

SelectSeq2(rows, id) == SelectSeq(rows, LAMBDA r : r.auction_id = id)

\* build_auction_json_query and serde_json::from_value: the auction built from
\* a row and its bids rows.  The query selects no ends_at, so the
\* deserialized Option is None.
auction_from_json(id, row, rows) ==
    LET mine == SelectSeq2(rows, id)
    IN  [auction_type |-> row.auction_type,
         base |-> [auction_id |-> id,
                   starts_at |-> row.starts_at,
                   expiry |-> row.expiry,
                   user |-> row.user_id,
                   currency |-> Unwrap(currency_from_json(row.currency)),
                   bids |-> [i \in 1 .. Len(mine) |->
                               Bid_new(mine[i].id, mine[i].user_id,
                                       Amount(mine[i].amount_value,
                                              Unwrap(currency_from_json(mine[i].amount_currency))),
                                       mine[i].at)]],
         options |-> row.options,
         ends_at |-> None]

json_deserializes(id, row, rows) ==
    /\ currency_from_json(row.currency) # None
    /\ \A i \in 1 .. Len(rows) :
          rows[i].auction_id = id => currency_from_json(rows[i].amount_currency) # None

\* PgAuctionRepository::get_auction on the committed store:
\* Err(Repository), Ok(None) or Ok(Some(auction)).
get_auction(id) ==
    IF id \notin DOMAIN auctions THEN [err |-> "", value |-> None]
    ELSE IF ~json_deserializes(id, auctions[id], bids)
    THEN [err |-> "Repository", value |-> None]
    ELSE [err |-> "", value |-> Some(auction_from_json(id, auctions[id], bids))]

\* PgAuctionRepository::get_auctions on the committed store: json_agg over
\* all rows of auctions, deserialized as one Vec<Auction>.  The query has no
\* ORDER BY, so the list is kept as a set.
get_auctions ==
    IF \E id \in DOMAIN auctions : ~json_deserializes(id, auctions[id], bids)
    THEN [err |-> "Repository", value |-> {}]
    ELSE [err |-> "", value |-> { auction_from_json(id, auctions[id], bids) :
                                     id \in DOMAIN auctions }]

\* The unique key (auction_id, id) of the bids table.
no_bids_key(rows, row) == FALSE

bids_key_violated(rows, row) ==
    \E i \in 1 .. Len(rows) : rows[i].auction_id = row.auction_id /\ rows[i].id = row.id

bid_ids(bs) == { bs[i].id : i \in 1 .. Len(bs) }

\* existing_ids.difference(&incoming_ids) and incoming_ids.difference(&existing_ids)
to_delete_ignored(existing_ids, incoming_ids) == {}

to_delete(existing_ids, incoming_ids) == existing_ids \ incoming_ids

to_add(existing_ids, incoming_ids) == incoming_ids \ existing_ids

\* The bids table after a transaction that inserted tx_rows for auction `id`
\* commits.
commit_replacing(rows, id, tx_rows) ==
    SelectSeq(rows, LAMBDA r : r.auction_id # id) \o tx_rows

commit_bids(rows, id, tx_rows) == rows \o tx_rows

\* auction.bids().iter().find(|b| b.id == bid_id).unwrap()
find_bid(bs, id) == bs[CHOOSE i \in 1 .. Len(bs) :
                          bs[i].id = id /\ \A j \in 1 .. (i - 1) : bs[j].id # id]

(***************************************************************************)
(* Calls.  The k-th call to start is call k; calls run concurrently and    *)
(* each advances one await at a time.                                      *)
(***************************************************************************)
Procs == 1 .. MaxCalls

NoResult == [tag |-> "", errors |-> {}]
Result(tag) == [tag |-> tag, errors |-> {}]
Validation(errors) == [tag |-> "Validation", errors |-> errors]

NoTx == [expiry |-> None, rows |-> << >>]

\* A call's locals: the entity it works on, the time passed to try_add_bid,
\* the bid ids of auction_from_db, the ids still to insert, the open
\* transaction's writes, and its result once it has returned.
IdleCall ==
    [kind |-> "idle", pc |-> "idle", auction |-> None, bid |-> None, now |-> None,
     existing_ids |-> None, to_add |-> {}, tx |-> NoTx, result |-> NoResult]

\* The call returns: its transaction, if still open, is dropped.
Return(c, result) ==
    [IdleCall EXCEPT !.kind = c.kind, !.pc = "done", !.result = result]

\* An open transaction of a call other than p holds an uncommitted bids row
\* with the key of `row`: the INSERT waits for that transaction to end.
key_pending_elsewhere(p, row) ==
    \E q \in Procs \ {p} : bids_key_violated(calls[q].tx.rows, row)

\* The auctions row `id` is locked by the open transaction of a call other
\* than p that has executed its UPDATE and not yet committed or rolled back.
locked_by_other(p, id) ==
    \E q \in Procs \ {p} :
        /\ calls[q].pc \in {"insert", "commit"}
        /\ calls[q].kind \in {"bid", "update"}
        /\ Unwrap(calls[q].auction).base.auction_id = id

\* The inputs of the handlers.
SysAmounts == { Amount(1, "SEK"), Amount(3, "SEK") }

SysUsers == {None, Some("x2"), Some("x3")}

SysCommands ==
    { CreateAuctionCommand("SEK", 1, 2, Some(2), Some(2), Some(1), None),
      CreateAuctionCommand("SEK", 1, 2, None, None, None, Some("Blind")) }

\* The service starts against a store that holds one auction, as an earlier
\* create-auction call by the seller committed it under id 1.
Init ==
    /\ EntityIdle
    /\ \E cmd \in SysCommands :
          auctions = (1 :> auction_row(create_auction(cmd, Seller)))
    /\ bids = << >>
    /\ seq = 1
    /\ clock = 0
    /\ calls = [p \in Procs |-> IdleCall]
    /\ started = 0

Tick ==
    /\ clock < MaxTime
    /\ clock' = clock + 1
    /\ UNCHANGED <<auction, last, auctions, bids, seq, calls, started>>

Free(p) == p = started + 1

(***************************************************************************)
(* DefaultCreateAuctionCommandHandler::handle and                          *)
(* PgAuctionRepository::create_auction                                     *)
(***************************************************************************)
\* handle: the user check and the factory, up to create_auction's first await.
handle_create(p, user_id, cmd) ==
    /\ Free(p)
    /\ calls' = [calls EXCEPT ![p] =
          IF user_id = None
          THEN Return([IdleCall EXCEPT !.kind = "create"], Result("Unauthorized"))
          ELSE [IdleCall EXCEPT !.kind = "create", !.pc = "insert_auction",
                                !.auction = Some(create_auction(cmd, Unwrap(user_id)))]]
    /\ started' = started + 1
    /\ UNCHANGED <<auctions, bids, seq, clock>>

StartCreate(p) ==
    /\ \E user_id \in {None, Some(Seller)}, cmd \in SysCommands :
          handle_create(p, user_id, cmd)
    /\ UNCHANGED <<auction, last>>

same_auction_id(s) == s

\* The value of the id column for the next inserted auctions row: the column
\* draws from a sequence, which hands out each value once, in or out of a
\* transaction.
next_auction_id(s) == s + 1

\* INSERT INTO auctions ... RETURNING id, inside the transaction.
insert_auction(p) ==
    /\ calls[p].pc = "insert_auction"
    /\ seq' = next_auction_id(seq)
    /\ calls' = [calls EXCEPT ![p].pc = "commit_auction",
                              ![p].auction = Some([Unwrap(@) EXCEPT
                                                   !.base.auction_id = next_auction_id(seq)])]
    /\ UNCHANGED <<auctions, bids, clock, started>>

CreateInsert(p) ==
    /\ insert_auction(p)
    /\ UNCHANGED <<auction, last>>

commit_auction_unsaved(p) ==
    /\ calls[p].pc = "commit_auction"
    /\ calls' = [calls EXCEPT ![p] = Return(calls[p], Result("Ok"))]
    /\ UNCHANGED <<auctions, bids, seq, clock, started>>

\* tx.commit(); the auction is returned with the id the INSERT returned.
commit_auction(p) ==
    /\ calls[p].pc = "commit_auction"
    /\ LET c == calls[p]
           a == Unwrap(c.auction)
       IN  /\ auctions' = auctions @@ (a.base.auction_id :> auction_row(a))
           /\ calls' = [calls EXCEPT ![p] = Return(c, Result("Ok"))]
    /\ UNCHANGED <<bids, seq, clock, started>>

CreateCommit(p) ==
    /\ commit_auction(p)
    /\ UNCHANGED <<auction, last>>

(***************************************************************************)
(* DefaultCreateBidCommandHandler::handle                                  *)
(***************************************************************************)
\* self.repository.get_auction(command.auction_id).await?, the user check, and
\* BidData { user, amount, at: self.system_clock.now() }: the first reading of
\* the clock.  The entity holds the stamped bid until it is admitted.
handle_bid_user_first(user_id, amount, id) ==
    LET c == [IdleCall EXCEPT !.kind = "bid"]
        got == get_auction(id)
    IN  IF user_id = None THEN Return(c, Result("Unauthorized"))
        ELSE IF got.err # "" THEN Return(c, Result(got.err))
        ELSE IF got.value = None THEN Return(c, Validation({"UnknownAuction"}))
        ELSE [c EXCEPT !.pc = "admit", !.auction = got.value,
                       !.bid = Some(BidData(Unwrap(user_id), amount, clock))]

handle_bid(user_id, amount, id) ==
    LET c == [IdleCall EXCEPT !.kind = "bid"]
        got == get_auction(id)
    IN  IF got.err # "" THEN Return(c, Result(got.err))
        ELSE IF got.value = None THEN Return(c, Validation({"UnknownAuction"}))
        ELSE IF user_id = None THEN Return(c, Result("Unauthorized"))
        ELSE [c EXCEPT !.pc = "admit", !.auction = got.value,
                       !.bid = Some(BidData(Unwrap(user_id), amount, clock))]

StartBid(p) ==
    /\ Free(p)
    /\ \E user_id \in SysUsers, amount \in SysAmounts, id \in 1 .. (seq + 1) :
          calls' = [calls EXCEPT ![p] = handle_bid(user_id, amount, id)]
    /\ started' = started + 1
    /\ UNCHANGED <<auction, last, auctions, bids, seq, clock>>

\* auction.try_add_bid(self.system_clock.now(), bid): the second reading of the
\* clock.
BidAdmit(p) ==
    /\ calls[p].pc = "admit"
    /\ LET c == calls[p]
           r == try_add_bid(Unwrap(c.auction), clock, Unwrap(c.bid))
       IN  calls' = [calls EXCEPT ![p] =
             IF r.result.ok
             THEN [c EXCEPT !.pc = "read", !.now = Some(clock), !.bid = None,
                            !.auction = Some(r.auction)]
             ELSE Return(c, Validation(r.result.err))]
    /\ UNCHANGED <<auction, last, auctions, bids, seq, clock, started>>

(***************************************************************************)
(* PgAuctionRepository::update_auction, one action per await               *)
(***************************************************************************)
\* The auctions a direct caller of the repository submits: the stored
\* auction with a later expiry, with its last bid dropped and a later expiry,
\* or with its last bid's amount changed; or an auction whose id is not stored.
Later(t) == IF t < MaxTime THEN t + 1 ELSE t

DropLast(bs) == SubSeq(bs, 1, Len(bs) - 1)

Incoming(a) ==
    { [a EXCEPT !.base.expiry = Later(@)] }
    \cup (IF a.base.bids = << >> THEN {}
          ELSE { [a EXCEPT !.base.bids = DropLast(@), !.base.expiry = Later(@)],
                 [a EXCEPT !.base.bids[Len(a.base.bids)].amount.value = @ + 1] })

StartUpdate(p) ==
    /\ Free(p)
    /\ \E id \in 1 .. (seq + 1) :
          LET got == get_auction(id)
          IN  \E a \in IF got.value = None
                        THEN { [create_auction(CHOOSE cmd \in Commands : TRUE, Seller)
                                   EXCEPT !.base.auction_id = id] }
                        ELSE Incoming(Unwrap(got.value)) :
                calls' = [calls EXCEPT ![p] =
                    [IdleCall EXCEPT !.kind = "update", !.pc = "read",
                                     !.auction = Some(a)]]
    /\ started' = started + 1
    /\ UNCHANGED <<auction, last, auctions, bids, seq, clock>>

UpdateRead_unchecked(p) ==
    /\ calls[p].pc = "read"
    /\ LET c == calls[p]
           got == get_auction(Unwrap(c.auction).base.auction_id)
       IN  calls' = [calls EXCEPT ![p] =
             IF got.err # "" THEN Return(c, Result(got.err))
             ELSE [c EXCEPT !.pc = "header", !.now = None,
                            !.existing_ids =
                                Some(IF got.value = None THEN {}
                                     ELSE bid_ids(Unwrap(got.value).base.bids))]]
    /\ UNCHANGED <<auction, last, auctions, bids, seq, clock, started>>

\* self.pool.begin(), then self.get_auction(auction.auction_id()): the read
\* runs on the pool, outside the transaction.
UpdateRead(p) ==
    /\ calls[p].pc = "read"
    /\ LET c == calls[p]
           got == get_auction(Unwrap(c.auction).base.auction_id)
       IN  calls' = [calls EXCEPT ![p] =
             IF got.err # "" THEN Return(c, Result(got.err))
             ELSE IF got.value = None THEN Return(c, Result("NotFound"))
             ELSE [c EXCEPT !.pc = "header", !.now = None,
                            !.existing_ids = Some(bid_ids(Unwrap(got.value).base.bids))]]
    /\ UNCHANGED <<auction, last, auctions, bids, seq, clock, started>>

\* UPDATE auctions SET expiry = $2 WHERE id = $1 inside the transaction (it
\* waits for the row's lock), then the comparison of the bid ids.
UpdateHeader(p) ==
    /\ calls[p].pc = "header"
    /\ LET c == calls[p]
           a == Unwrap(c.auction)
           id == a.base.auction_id
           existing_ids == Unwrap(c.existing_ids)
           incoming_ids == bid_ids(a.base.bids)
           adding == to_add(existing_ids, incoming_ids)
       IN  /\ ~locked_by_other(p, id)
           /\ calls' = [calls EXCEPT ![p] =
                 IF id \notin DOMAIN auctions THEN Return(c, Result("NotFound"))
                 ELSE IF to_delete(existing_ids, incoming_ids) # {}
                 THEN Return(c, Result("Internal"))
                 ELSE [c EXCEPT !.pc = IF adding = {} THEN "commit" ELSE "insert",
                                !.existing_ids = None,
                                !.tx.expiry = Some(a.base.expiry),
                                !.to_add = adding]]
    /\ UNCHANGED <<auction, last, auctions, bids, seq, clock, started>>

UpdateInsert_unkeyed(p) ==
    /\ calls[p].pc = "insert"
    /\ \E bid_id \in calls[p].to_add :
          LET c == calls[p]
              a == Unwrap(c.auction)
              row == bid_row(a, find_bid(a.base.bids, bid_id))
              rest == c.to_add \ {bid_id}
          IN  calls' = [calls EXCEPT ![p] =
                   [c EXCEPT !.pc = IF rest = {} THEN "commit" ELSE "insert",
                             !.tx.rows = Append(@, row),
                             !.to_add = rest]]
    /\ UNCHANGED <<auction, last, auctions, bids, seq, clock, started>>

\* INSERT INTO bids for one id of to_add, inside the transaction.
UpdateInsert(p) ==
    /\ calls[p].pc = "insert"
    /\ \E bid_id \in calls[p].to_add :
          LET c == calls[p]
              a == Unwrap(c.auction)
              row == bid_row(a, find_bid(a.base.bids, bid_id))
              rest == c.to_add \ {bid_id}
          IN  /\ ~key_pending_elsewhere(p, row)
              /\ calls' = [calls EXCEPT ![p] =
                   IF bids_key_violated(bids, row) THEN Return(c, Result("Repository"))
                   ELSE [c EXCEPT !.pc = IF rest = {} THEN "commit" ELSE "insert",
                                  !.tx.rows = Append(@, row),
                                  !.to_add = rest]]
    /\ UNCHANGED <<auction, last, auctions, bids, seq, clock, started>>

\* tx.commit(): the transaction's writes become the committed state.
UpdateCommit(p) ==
    /\ calls[p].pc = "commit"
    /\ LET c == calls[p]
           id == Unwrap(c.auction).base.auction_id
       IN  /\ auctions' = [auctions EXCEPT ![id].expiry = Unwrap(c.tx.expiry)]
           /\ bids' = commit_bids(bids, id, c.tx.rows)
           /\ calls' = [calls EXCEPT ![p] = Return(c, Result("Ok"))]
    /\ UNCHANGED <<auction, last, seq, clock, started>>

Next ==
    \/ Tick
    \/ \E p \in Procs :
          \/ StartCreate(p)
          \/ CreateInsert(p)
          \/ CreateCommit(p)
          \/ StartBid(p)
          \/ BidAdmit(p)
          \/ StartUpdate(p)
          \/ UpdateRead(p)
          \/ UpdateHeader(p)
          \/ UpdateInsert(p)
          \/ UpdateCommit(p)

Spec == Init /\ [][Next]_vars

(***************************************************************************)
(* SpecBids: concurrent place-bid handler calls on the stored auction, and *)
(* no other caller of the repository.                                      *)
(***************************************************************************)
NextBids ==
    \/ Tick
    \/ \E p \in Procs :
          \/ StartBid(p)
          \/ BidAdmit(p)
          \/ UpdateRead(p)
          \/ UpdateHeader(p)
          \/ UpdateInsert(p)
          \/ UpdateCommit(p)

SpecBids == Init /\ [][NextBids]_vars

(***************************************************************************)
(* SpecClocked: one entity driven by try_add_bid calls that pass the       *)
(* reading of a clock that never goes back, as the place-bid handler does. *)
(***************************************************************************)
ClockedCommands ==
    Commands \cup { CreateAuctionCommand("SEK", 0, 1, Some(1), Some(2), Some(1), None) }

InitClocked ==
    /\ \E cmd \in ClockedCommands : auction = Some(create_auction(cmd, Seller))
    /\ last = None
    /\ SystemIdle

TryAddBidNow ==
    \E bid \in BidDatas :
        LET a == Unwrap(auction)
            r == try_add_bid(a, clock, bid)
        IN  /\ r.result.ok => Len(a.base.bids) < MaxBids
            /\ auction' = Some(r.auction)
            /\ last' = Some(r.result)
            /\ UNCHANGED <<auctions, bids, seq, clock, calls, started>>

NextClocked == Tick \/ TryAddBidNow

SpecClocked == InitClocked /\ [][NextClocked]_vars

(***************************************************************************)
(* SpecRaise: one TimedAscending entity whose min_raise is small or the     *)
(* largest i64, driven by try_add_bid calls in a build with or without      *)
(* overflow checks; `last` holds the build and whether the last call        *)
(* panicked.                                                                *)
(***************************************************************************)
RaiseCommands ==
    { CreateAuctionCommand("SEK", 1, 2, Some(r), None, Some(1), None) : r \in {1, IntMax} }

InitRaise ==
    /\ \E cmd \in RaiseCommands : auction = Some(create_auction(cmd, Seller))
    /\ \E b \in BOOLEAN : last = Some([overflow_checks |-> b, panicked |-> FALSE])
    /\ SystemIdle

\* try_add_bid where the raise is computed without a panic.
RaiseBid ==
    \E time \in Times, bid \in BidDatas :
        LET a == Unwrap(auction)
            r == try_add_bid(a, time, bid)
        IN  /\ ~(Unwrap(last).overflow_checks /\ raise_overflows(a, time, bid))
            /\ r.result.ok => Len(a.base.bids) < MaxBids
            /\ auction' = Some(r.auction)
            /\ last' = Some([Unwrap(last) EXCEPT !.panicked = FALSE])
            /\ UNCHANGED <<auctions, bids, seq, clock, calls, started>>

\* try_add_bid panics at the sum: the entity is left as it was.
RaisePanics ==
    \E time \in Times, bid \in BidDatas :
        /\ Unwrap(last).overflow_checks
        /\ raise_overflows(Unwrap(auction), time, bid)
        /\ last' = Some([Unwrap(last) EXCEPT !.panicked = TRUE])
        /\ UNCHANGED <<auction, auctions, bids, seq, clock, calls, started>>

NextRaise == RaiseBid \/ RaisePanics

SpecRaise == InitRaise /\ [][NextRaise]_vars

(***************************************************************************)
(* SpecWinner: one entity filled by accepted bids of up to three bidders,  *)
(* and try_get_amount_and_winner applied to it at every time.              *)
(***************************************************************************)
MaxWinnerBids == 3

Bidders == {"x2", "x3", "x4"}

WinnerBids ==
    { BidData(u, Amount(v, "SEK"), t) : u \in Bidders, v \in Values, t \in Times }

\* try_add_bid with the time the bid was stamped at; `last` is cleared.
AdmitBid ==
    \E bid \in WinnerBids :
        LET a == Unwrap(auction)
            r == try_add_bid(a, bid.at, bid)
        IN  /\ r.result.ok
            /\ Len(a.base.bids) < MaxWinnerBids
            /\ auction' = Some(r.auction)
            /\ last' = None
            /\ UNCHANGED <<auctions, bids, seq, clock, calls, started>>

\* try_get_amount_and_winner(now); `last` holds now and the result.
GetWinner ==
    \E now \in Times :
        /\ last' = Some([now |-> now,
                         winner |-> try_get_amount_and_winner(Unwrap(auction), now)])
        /\ UNCHANGED <<auction, auctions, bids, seq, clock, calls, started>>

NextWinner == AdmitBid \/ GetWinner

SpecWinner == InitEntity /\ [][NextWinner]_vars

(***************************************************************************)
(* SpecPreCheck: try_add_bid called with bids that fail the pre-check;     *)
(* `last` holds the bid and the Errors value as the caller reads it.       *)
(***************************************************************************)
RefusedByPreCheck ==
    \E time \in Times, bid \in BidDatas :
        LET r == try_add_bid(Unwrap(auction), time, bid)
        IN  /\ validate_bid(Unwrap(auction), bid) # {}
            /\ \E e \in transmute_outcomes(r.result.err) :
                  last' = Some([bid |-> bid, err |-> e])
            /\ auction' = Some(r.auction)
            /\ UNCHANGED <<auctions, bids, seq, clock, calls, started>>

NextPreCheck == RefusedByPreCheck

SpecPreCheck == InitEntity /\ [][NextPreCheck]_vars

(***************************************************************************)
(* SpecCreate: create-auction calls against an empty store, by any caller  *)
(* and with any command; `last` keeps, per call, what the caller passed    *)
(* and what handle returned to it.                                         *)
(***************************************************************************)
CreateUsers == {None, Some("x1"), Some("x2")}

InitCreate ==
    /\ auction = None
    /\ last = [p \in Procs |-> None]
    /\ auctions = << >>
    /\ bids = << >>
    /\ seq = 0
    /\ clock = 0
    /\ calls = [p \in Procs |-> IdleCall]
    /\ started = 0

HandleCreate(p) ==
    /\ \E user_id \in CreateUsers, cmd \in Commands :
          /\ handle_create(p, user_id, cmd)
          /\ last' = [last EXCEPT ![p] =
                Some([user |-> user_id, cmd |-> cmd, returned |-> None])]
    /\ auction' = auction

ReturnCreated(p) ==
    /\ commit_auction(p)
    /\ last' = [last EXCEPT ![p] = Some([Unwrap(@) EXCEPT !.returned = calls[p].auction])]
    /\ auction' = auction

NextCreate ==
    \E p \in Procs :
        \/ HandleCreate(p)
        \/ CreateInsert(p)
        \/ ReturnCreated(p)

SpecCreate == InitCreate /\ [][NextCreate]_vars

(***************************************************************************)
(* SpecCancel: the handlers at a time inside the stored auction's window,  *)
(* where a request may be dropped at any await before its commit.          *)
(***************************************************************************)
InitCancel ==
    /\ EntityIdle
    /\ \E cmd \in SysCommands :
          auctions = (1 :> auction_row(create_auction(cmd, Seller)))
    /\ bids = << >>
    /\ seq = 1
    /\ clock = 1
    /\ calls = [p \in Procs |-> IdleCall]
    /\ started = 0

Suspended == {"insert_auction", "commit_auction", "read", "header", "insert", "commit"}

Cancel_keeping_writes(p) ==
    /\ calls[p].pc \in Suspended
    /\ bids' = bids \o calls[p].tx.rows
    /\ calls' = [calls EXCEPT ![p] = Return(calls[p], Result("Cancelled"))]
    /\ UNCHANGED <<auction, last, auctions, seq, clock, started>>

\* The request's future is dropped while it waits at an await of
\* create_auction or update_auction: `tx` goes out of scope without commit()
\* and the transaction is rolled back.  The id sequence is not rolled back.
Cancel(p) ==
    /\ calls[p].pc \in Suspended
    /\ calls' = [calls EXCEPT ![p] = Return(calls[p], Result("Cancelled"))]
    /\ UNCHANGED <<auction, last, auctions, bids, seq, clock, started>>

NextCancel ==
    \E p \in Procs :
        \/ StartCreate(p)
        \/ CreateInsert(p)
        \/ CreateCommit(p)
        \/ StartBid(p)
        \/ BidAdmit(p)
        \/ UpdateRead(p)
        \/ UpdateHeader(p)
        \/ UpdateInsert(p)
        \/ UpdateCommit(p)
        \/ Cancel(p)

SpecCancel == InitCancel /\ [][NextCancel]_vars

(***************************************************************************)
(* SpecProjection: one entity with accepted bids, projected at any time;   *)
(* `last` holds the time and the AuctionModel.                             *)
(***************************************************************************)
Project ==
    \E now \in Times :
        /\ last' = Some([now |-> now, model |-> map_auction_to_model(Unwrap(auction), now)])
        /\ UNCHANGED <<auction, auctions, bids, seq, clock, calls, started>>

NextProjection == AdmitBid \/ Project

SpecProjection == InitEntity /\ [][NextProjection]_vars

(***************************************************************************)
(* SpecEndpoint: the create_bid endpoint answering the outcomes of the     *)
(* place-bid handler for one auction; `last` holds the outcome and the     *)
(* status of the response.                                                 *)
(***************************************************************************)
\* What DefaultCreateBidCommandHandler::handle can return for auction a.
HandleOutcomes(a) ==
    { Result("Ok"), Result("Unauthorized"), Validation({"UnknownAuction"}),
      Result("Repository"), Result("Internal"), Result("NotFound") }
    \cup { Validation(try_add_bid(a, tb[1], tb[2]).result.err) :
             tb \in { x \in Times \X BidDatas :
                        x[2].at <= x[1] /\ ~try_add_bid(a, x[1], x[2]).result.ok } }

\* The match of create_bid on the handler's result.  The arm
\* Err(Error::Validation(Errors::UnknownAuction)) reads the Errors value.
create_bid_status(outcome) ==
    IF outcome.tag = "Ok" THEN {200}
    ELSE IF outcome.tag = "Validation"
    THEN { IF e = {"UnknownAuction"} THEN 404 ELSE 400 : e \in transmute_outcomes(outcome.errors) }
    ELSE IF outcome.tag = "Unauthorized" THEN {401}
    ELSE {500}

CreateBidResponse ==
    \E outcome \in HandleOutcomes(Unwrap(auction)) :
        \E status \in create_bid_status(outcome) :
            /\ last' = Some([outcome |-> outcome, status |-> status])
            /\ UNCHANGED <<auction, auctions, bids, seq, clock, calls, started>>

NextEndpoint == CreateBidResponse

SpecEndpoint == InitEntity /\ [][NextEndpoint]_vars

(***************************************************************************)
(* Amount: Add, Sub, PartialOrd, Display and FromStr.  The value is an i64, *)
(* modelled as a two's complement integer of IntBits bits; a string is the *)
(* sequence of its characters.                                             *)
(***************************************************************************)
CurrencyCodes == {"None", "VAC", "SEK", "DKK"}

\* An arithmetic result that does not fit the integer type panics where
\* overflow checks are compiled in (the dev profile) and wraps where they are
\* not (the release profile).
checked(n, currency) ==
    IF n \in Ints THEN { [tag |-> "Ok", value |-> Some(Amount(n, currency))] }
    ELSE { [tag |-> "Ok", value |-> Some(Amount(wrapping(n), currency))],
           [tag |-> "panic", value |-> None] }

assert_same_currency(x, y) == x.currency = y.currency

CurrencyMismatch == [tag |-> "CurrencyMismatch", value |-> None]

add(x, y) ==
    IF ~assert_same_currency(x, y) THEN {CurrencyMismatch}
    ELSE checked(x.value + y.value, x.currency)

sub(x, y) ==
    IF ~assert_same_currency(x, y) THEN {CurrencyMismatch}
    ELSE checked(x.value - y.value, x.currency)

partial_cmp(x, y) ==
    IF x.currency = y.currency
    THEN Some(IF x.value < y.value THEN "Less"
              ELSE IF x.value = y.value THEN "Equal" ELSE "Greater")
    ELSE None

\* impl Display for CurrencyCode, as characters.
currency_fmt(c) ==
    IF c = "None" THEN <<"N", "O", "N", "E">>
    ELSE IF c = "VAC" THEN <<"V", "A", "C">>
    ELSE IF c = "SEK" THEN <<"S", "E", "K">>
    ELSE <<"D", "K", "K">>

\* impl FromStr for CurrencyCode.
currency_from_str(str) ==
    IF str = <<"V", "A", "C">> THEN Some("VAC")
    ELSE IF str = <<"S", "E", "K">> THEN Some("SEK")
    ELSE IF str = <<"D", "K", "K">> THEN Some("DKK")
    ELSE None

DigitChars == <<"0", "1", "2", "3", "4", "5", "6", "7", "8", "9">>

UpperChars ==
    {"A", "B", "C", "D", "E", "F", "G", "H", "I", "J", "K", "L", "M",
     "N", "O", "P", "Q", "R", "S", "T", "U", "V", "W", "X", "Y", "Z"}

IsDigit(ch) == \E d \in 1 .. 10 : DigitChars[d] = ch

DigitValue(ch) == (CHOOSE d \in 1 .. 10 : DigitChars[d] = ch) - 1

RECURSIVE digits(_)
digits(n) ==
    IF n < 10 THEN << DigitChars[n + 1] >>
    ELSE Append(digits(n \div 10), DigitChars[(n % 10) + 1])

\* impl Display for i64.
int_fmt(n) == IF n < 0 THEN <<"-">> \o digits(-n) ELSE digits(n)

\* impl Display for Amount: write!(f, "{}{}", self.currency, self.value).
amount_fmt(x) == currency_fmt(x.currency) \o int_fmt(x.value)

RECURSIVE number(_)
number(str) ==
    IF str = << >> THEN 0
    ELSE 10 * number(SubSeq(str, 1, Len(str) - 1)) + DigitValue(str[Len(str)])

InvalidAmount == [tag |-> "InvalidAmount", value |-> None]

\* impl FromStr for Amount: the regex ^(?<currency>[A-Z]+)(?<value>[0-9]+)$,
\* then the value parsed as i64, then the currency parsed.
amount_from_str(str) ==
    LET k == CHOOSE i \in 0 .. Len(str) :
                 /\ \A j \in 1 .. i : str[j] \in UpperChars
                 /\ (i < Len(str) => str[i + 1] \notin UpperChars)
        currency == SubSeq(str, 1, k)
        value == SubSeq(str, k + 1, Len(str))
    IN  IF k = 0 \/ value = << >> \/ \E j \in 1 .. Len(value) : ~IsDigit(value[j])
        THEN InvalidAmount
        ELSE IF number(value) \notin Ints THEN InvalidAmount
        ELSE IF currency_from_str(currency) = None THEN InvalidAmount
        ELSE [tag |-> "Ok",
              value |-> Some(Amount(number(value), Unwrap(currency_from_str(currency))))]

(***************************************************************************)
(* SpecAmount: two amounts of the whole value range, then one operation of *)
(* Amount applied to them; `last` holds the operands, the operation and    *)
(* its result.                                                             *)
(***************************************************************************)
InitAmount ==
    /\ SystemIdle
    /\ auction = None
    /\ \E x \in { Amount(v, c) : v \in Ints, c \in CurrencyCodes },
          y \in { Amount(v, c) : v \in Ints, c \in Currencies } :
          last = Some([op |-> "new", lhs |-> x, rhs |-> y, result |-> None])

Applied(op, result) ==
    /\ Unwrap(last).op = "new"
    /\ last' = Some([Unwrap(last) EXCEPT !.op = op, !.result = result])
    /\ UNCHANGED <<auction, auctions, bids, seq, clock, calls, started>>

Add == \E r \in add(Unwrap(last).lhs, Unwrap(last).rhs) : Applied("add", r)

Sub == \E r \in sub(Unwrap(last).lhs, Unwrap(last).rhs) : Applied("sub", r)

Compare ==
    \E r \in {partial_cmp(Unwrap(last).lhs, Unwrap(last).rhs)} : Applied("partial_cmp", r)

RoundTrip ==
    \E r \in {amount_from_str(amount_fmt(Unwrap(last).lhs))} : Applied("from_str", r)

NextAmount == Add \/ Sub \/ Compare \/ RoundTrip

SpecAmount == InitAmount /\ [][NextAmount]_vars

(***************************************************************************)
(* Properties                                                              *)
(***************************************************************************)
TheAuction == Unwrap(auction)

IsSealed(a) == a.auction_type = "SingleSealedBid"

\* C1: for a SingleSealedBid auction that holds a bid, get_bids(now) returns
\* nothing and the projection shows no bid at every now <= expiry, and
\* get_bids(now) returns the full bid list at every now > expiry.
C1_SealedBidsHiddenUntilExpiry ==
    (auction # None /\ IsSealed(TheAuction) /\ TheAuction.base.bids # << >>) =>
        \A now \in Times :
            IF now <= TheAuction.base.expiry
            THEN /\ get_bids(TheAuction, now) = None
                 /\ map_auction_to_model(TheAuction, now).bids = << >>
            ELSE get_bids(TheAuction, now) = Some(TheAuction.base.bids)

\* The bids row of the bid a place-bid call admitted: the last bid of its entity.
OwnRow(c) ==
    LET a == Unwrap(c.auction) IN bid_row(a, a.base.bids[Len(a.base.bids)])

InTable(rows, row) == \E i \in 1 .. Len(rows) : rows[i] = row

Returns(p, tag) ==
    calls[p].pc # "done" /\ calls'[p].pc = "done" /\ calls'[p].result.tag = tag

\* C2: a place-bid call returns success only if the bid it admitted is in the
\* bids table when it returns.
C2_SuccessMeansOwnBidStored ==
    [][\A p \in Procs :
          (calls[p].kind = "bid" /\ Returns(p, "Ok")) => InTable(bids', OwnRow(calls[p]))]_vars

\* C3: the bids table never holds two rows with the same (auction_id, id).
C3_BidKeyUnique ==
    \A i, j \in 1 .. Len(bids) :
        (bids[i].auction_id = bids[j].auction_id /\ bids[i].id = bids[j].id) => i = j

\* C3 witness: an update was refused on the key while a row is stored.
C3_KeyRefused ==
    /\ bids # << >>
    /\ \E p \in Procs : calls[p].kind = "bid" /\ calls[p].result.tag = "Repository"

\* C4: in a place-bid call the time passed to try_add_bid equals the `at`
\* stamped on the bid it admitted.
C4_ClockReadOnce ==
    \A p \in Procs :
        (calls[p].kind = "bid" /\ calls[p].pc = "read") =>
            LET a == Unwrap(calls[p].auction)
            IN  a.base.bids[Len(a.base.bids)].at = Unwrap(calls[p].now)

\* C5: an update whose incoming bid ids lack an id of the stored version it
\* loaded returns Internal, and the auctions and bids tables are unchanged.
C5_DroppedBidRefused ==
    [][\A p \in Procs :
          ( /\ calls[p].pc = "header"
            /\ calls'[p].pc # "header"
            /\ Unwrap(calls[p].existing_ids)
                  \ bid_ids(Unwrap(calls[p].auction).base.bids) # {} )
          => /\ calls'[p].pc = "done"
             /\ calls'[p].result.tag = "Internal"
             /\ auctions' = auctions
             /\ bids' = bids]_vars

\* C5 witness: an update was refused with Internal while a bid is stored.
C5_InternalReturned ==
    /\ bids # << >>
    /\ \E p \in Procs : calls[p].kind = "update" /\ calls[p].result.tag = "Internal"

\* C6: every step keeps every stored bids row in place and unchanged, and keeps
\* every stored auction.
C6_StoredBidsOnlyGrow ==
    [][ /\ Len(bids') >= Len(bids)
        /\ \A i \in 1 .. Len(bids) : bids'[i] = bids[i]
        /\ \A id \in DOMAIN auctions : id \in DOMAIN auctions' ]_vars

\* C6 witness: a direct update committed on a store that holds a bid.
C6_UpdateCommitted ==
    /\ bids # << >>
    /\ \E p \in Procs : calls[p].kind = "update" /\ calls[p].result.tag = "Ok"

StoredIds(id) == { r.id : r \in { bids[i] : i \in { j \in 1 .. Len(bids) : bids[j].auction_id = id } } }

\* C7: between an update's read of the stored version and its commit, the
\* stored bids of that auction are the ones it read.
C7_UpdateComparesCurrentVersion ==
    \A p \in Procs :
        calls[p].pc = "header" =>
            Unwrap(calls[p].existing_ids)
              = StoredIds(Unwrap(calls[p].auction).base.auction_id)

\* C8: every bid of the entity has the auction's currency, a user other than
\* the seller, and starts_at <= at <= expiry.
C8_AcceptedBidsValid ==
    auction # None =>
        \A i \in 1 .. Len(TheAuction.base.bids) :
            LET b == TheAuction.base.bids[i]
            IN  /\ b.amount.currency = TheAuction.base.currency
                /\ b.user # TheAuction.base.user
                /\ TheAuction.base.starts_at <= b.at
                /\ b.at <= TheAuction.base.expiry

\* C8 witness: the entity holds a bid and has just refused the seller's bid.
C8_SellerRefused ==
    /\ auction # None /\ TheAuction.base.bids # << >>
    /\ last # None /\ "SellerCannotPlaceBids" \in Unwrap(last).err

\* C9: the bid ids of the entity are 1..N in insertion order; an accepted bid
\* is appended under id len(bids)+1 and a rejected bid changes no bid.
C9_BidIdsDense ==
    auction # None =>
        /\ \A i \in 1 .. Len(TheAuction.base.bids) : TheAuction.base.bids[i].id = i
        /\ \A time \in Times, bid \in BidDatas :
              LET r == try_add_bid(TheAuction, time, bid)
              IN  IF r.result.ok
                  THEN r.auction.base.bids
                         = Append(TheAuction.base.bids,
                                  Bid_new(Len(TheAuction.base.bids) + 1,
                                          bid.user, bid.amount, bid.at))
                  ELSE r.auction.base.bids = TheAuction.base.bids

\* C9 witness: two bids were accepted and the last call was rejected.
C9_RejectedAfterTwo ==
    /\ auction # None /\ Len(TheAuction.base.bids) >= 2
    /\ last # None /\ ~Unwrap(last).ok

\* C10: in a SingleSealedBid entity no user has two bids, and a bid from a user
\* who has one is rejected: with AlreadyPlacedBid once it passes the
\* pre-checks and the time checks.
C10_OneBidPerUser ==
    (auction # None /\ IsSealed(TheAuction)) =>
        /\ \A i, j \in 1 .. Len(TheAuction.base.bids) :
              TheAuction.base.bids[i].user = TheAuction.base.bids[j].user => i = j
        /\ \A time \in Times, bid \in BidDatas :
              any_user(TheAuction.base.bids, bid.user) =>
                LET r == try_add_bid(TheAuction, time, bid)
                IN  /\ ~r.result.ok
                    /\ ( /\ validate_bid(TheAuction, bid) = {}
                          /\ time >= TheAuction.base.starts_at
                          /\ time <= TheAuction.base.expiry )
                        => r.result.err = {"AlreadyPlacedBid"}

\* C10 witness: a sealed entity with a bid has just answered AlreadyPlacedBid.
C10_AlreadyPlaced ==
    /\ auction # None /\ IsSealed(TheAuction) /\ TheAuction.base.bids # << >>
    /\ last = Some(Err({"AlreadyPlacedBid"}))

IsTimed(a) == a.auction_type = "TimedAscending"

\* ends_at ?? expiry
effective_end(a) == unwrap_or(a.ends_at, a.base.expiry)

C12_HasEndedNeverTogglesBack ==
    /\ [](auction # None =>
            \A t1, t2 \in Times :
                (t1 <= t2 /\ has_ended(TheAuction, t1)) => has_ended(TheAuction, t2))
    /\ [][(auction # None /\ has_ended(TheAuction, clock)) =>
            has_ended(Unwrap(auction'), clock')]_vars

\* C12 witness: an entity whose end was extended has ended and has refused a
\* later bid.
C12_EndedAfterExtension ==
    /\ auction # None /\ IsTimed(TheAuction)
    /\ effective_end(TheAuction) > TheAuction.base.expiry
    /\ has_ended(TheAuction, clock)
    /\ last = Some(Err({"AuctionHasEnded"}))

\* The highest amount of a non-empty bid list, and of the list without bid i.
MaxValue(bs) ==
    CHOOSE m \in { bs[i].amount.value : i \in 1 .. Len(bs) } :
        \A j \in 1 .. Len(bs) : bs[j].amount.value <= m

Without(bs, i) == SubSeq(bs, 1, i - 1) \o SubSeq(bs, i + 1, Len(bs))

Asked == Unwrap(last)

\* C13: try_get_amount_and_winner(now) returns nothing when now <= expiry or
\* the entity has no bid, for both formats.
C13_NoWinnerBeforeExpiryOrWithoutBids ==
    (last # None /\ (Asked.now <= TheAuction.base.expiry \/ TheAuction.base.bids = << >>))
        => Asked.winner = None

\* C13 witness: an entity with bids was asked at a time up to its expiry.
C13_AskedBeforeExpiry ==
    /\ last # None /\ TheAuction.base.bids # << >>
    /\ Asked.now <= TheAuction.base.expiry
    /\ Asked.winner = None

\* C14: a TimedAscending entity with a bid, asked after expiry, yields the
\* amount and user of the bid with the highest amount when that amount is at
\* least reserve_price, and nothing when it is below.
C14_TimedWinnerMeetsReserve ==
    ( /\ last # None /\ IsTimed(TheAuction)
      /\ TheAuction.base.bids # << >>
      /\ Asked.now > TheAuction.base.expiry )
    => LET bs == TheAuction.base.bids
           m == MaxValue(bs)
       IN  IF m >= TheAuction.options.reserve_price
           THEN \E i \in 1 .. Len(bs) :
                   /\ bs[i].amount.value = m
                   /\ Asked.winner = Some(<< bs[i].amount, bs[i].user >>)
           ELSE Asked.winner = None

\* C14 witness: the highest bid is below the reserve price and the entity,
\* asked after expiry, yields nothing.
C14_ReserveNotMet ==
    /\ last # None /\ IsTimed(TheAuction)
    /\ TheAuction.base.bids # << >>
    /\ MaxValue(TheAuction.base.bids) < TheAuction.options.reserve_price
    /\ Asked.now > TheAuction.base.expiry
    /\ Asked.winner = None

IsVickrey(a) == IsSealed(a) /\ a.options.kind = "Vickrey"

IsBlind(a) == IsSealed(a) /\ a.options.kind = "Blind"

\* C15: a Vickrey entity asked after expiry yields its bid's amount and user
\* when it has one bid; with two or more bids it yields the user of a bid with
\* the highest amount and the highest amount among the other bids.
C15_VickreySecondPrice ==
    ( /\ last # None /\ IsVickrey(TheAuction)
      /\ TheAuction.base.bids # << >>
      /\ Asked.now > TheAuction.base.expiry )
    => LET bs == TheAuction.base.bids
       IN  IF Len(bs) = 1
           THEN Asked.winner = Some(<< bs[1].amount, bs[1].user >>)
           ELSE \E i \in 1 .. Len(bs) :
                   /\ bs[i].amount.value = MaxValue(bs)
                   /\ Asked.winner
                        = Some(<< Amount(MaxValue(Without(bs, i)), TheAuction.base.currency),
                                  bs[i].user >>)

\* C15 witness: three bids, the two highest with equal amounts above the
\* third, asked after expiry.
C15_TieAtTheTop ==
    /\ last # None /\ IsVickrey(TheAuction)
    /\ Len(TheAuction.base.bids) = 3
    /\ Asked.now > TheAuction.base.expiry
    /\ \E i, j, k \in 1 .. 3 :
          /\ i < j /\ k # i /\ k # j
          /\ TheAuction.base.bids[i].amount.value = TheAuction.base.bids[j].amount.value
          /\ TheAuction.base.bids[k].amount.value < TheAuction.base.bids[i].amount.value

\* C16: a Blind entity with a bid, asked after expiry, yields the amount and
\* the user of one bid whose amount is the highest.
C16_BlindFirstPrice ==
    ( /\ last # None /\ IsBlind(TheAuction)
      /\ TheAuction.base.bids # << >>
      /\ Asked.now > TheAuction.base.expiry )
    => LET bs == TheAuction.base.bids
       IN  \E i \in 1 .. Len(bs) :
              /\ bs[i].amount.value = MaxValue(bs)
              /\ Asked.winner = Some(<< bs[i].amount, bs[i].user >>)

\* C16 witness: three bids, the highest neither first nor last, asked after
\* expiry.
C16_HighestInTheMiddle ==
    /\ last # None /\ IsBlind(TheAuction)
    /\ Len(TheAuction.base.bids) = 3
    /\ Asked.now > TheAuction.base.expiry
    /\ TheAuction.base.bids[2].amount.value > TheAuction.base.bids[1].amount.value
    /\ TheAuction.base.bids[2].amount.value > TheAuction.base.bids[3].amount.value

\* The time is inside the bidding window and the bid passes the pre-checks.
Admissible(a, time, bid) ==
    /\ validate_bid(a, bid) = {}
    /\ time >= a.base.starts_at
    /\ time <= a.base.expiry

\* C17: on a TimedAscending entity a bid that passes the pre-checks and the
\* time checks is accepted when there is no bid yet; with highest amount H it
\* is refused with MustPlaceBidOverHighestBid when amount <= H, with
\* MustRaiseWithAtLeast when H < amount < H + min_raise, and accepted otherwise.
C17_RaiseRule ==
    (auction # None /\ IsTimed(TheAuction)) =>
        \A time \in Times, bid \in BidDatas :
            Admissible(TheAuction, time, bid) =>
                LET r == try_add_bid(TheAuction, time, bid).result
                    bs == TheAuction.base.bids
                IN  IF bs = << >> THEN r = Ok
                    ELSE IF bid.amount.value <= MaxValue(bs)
                    THEN r = Err({"MustPlaceBidOverHighestBid"})
                    ELSE IF bid.amount.value < MaxValue(bs) + TheAuction.options.min_raise
                    THEN r = Err({"MustRaiseWithAtLeast"})
                    ELSE r = Ok

\* C18: for both formats a call with time > expiry is refused, with
\* AuctionHasEnded when the bid passes the pre-checks; a call with
\* time < starts_at is refused, with AuctionHasNotStarted when the bid passes
\* the pre-checks and time <= expiry; and a call at starts_at or at expiry is
\* not refused for its time.
C18_NoBidOutsideWindow ==
    auction # None =>
        \A time \in Times, bid \in BidDatas :
            LET r == try_add_bid(TheAuction, time, bid).result
                passes == validate_bid(TheAuction, bid) = {}
            IN  /\ time > TheAuction.base.expiry =>
                      (~r.ok /\ (passes => r = Err({"AuctionHasEnded"})))
                /\ time < TheAuction.base.starts_at =>
                      ( /\ ~r.ok
                        /\ (passes /\ time <= TheAuction.base.expiry)
                              => r = Err({"AuctionHasNotStarted"}) )
                /\ (Admissible(TheAuction, time, bid)
                      /\ time \in {TheAuction.base.starts_at, TheAuction.base.expiry})
                    => r.err \cap {"AuctionHasEnded", "AuctionHasNotStarted"} = {}

\* C18 witness: an entity that accepted a bid at its expiry has refused a
\* later call with AuctionHasEnded.
C18_RefusedAfterExpiry ==
    /\ auction # None /\ TheAuction.base.bids # << >>
    /\ \E i \in 1 .. Len(TheAuction.base.bids) :
          TheAuction.base.bids[i].at = TheAuction.base.expiry
    /\ last = Some(Err({"AuctionHasEnded"}))

\* C19: the error set a failed pre-check returns holds exactly those of
\* SellerCannotPlaceBids, BidCurrencyConversion, AuctionHasNotStarted and
\* AuctionHasEnded whose condition holds for the bid.
C19_PreCheckReportsAllReasons ==
    last # None =>
        LET bid == Unwrap(last).bid
            a == TheAuction
        IN  Unwrap(last).err =
              { f \in {"SellerCannotPlaceBids", "BidCurrencyConversion",
                       "AuctionHasNotStarted", "AuctionHasEnded"} :
                  \/ f = "SellerCannotPlaceBids" /\ bid.user = a.base.user
                  \/ f = "BidCurrencyConversion" /\ bid.amount.currency # a.base.currency
                  \/ f = "AuctionHasNotStarted" /\ bid.at < a.base.starts_at
                  \/ f = "AuctionHasEnded" /\ bid.at > a.base.expiry }

\* The admission a place-bid call at `admit` is about to make.
Admission(c) == try_add_bid(Unwrap(c.auction), clock, Unwrap(c.bid))

\* C20: an admission that returns an error returns the entity as it was, and
\* the place-bid call then returns Validation of that error set with the
\* auctions and bids tables unchanged and without entering update_auction.
C20_FailedAdmissionChangesNothing ==
    /\ [](\A p \in Procs :
            (calls[p].pc = "admit" /\ ~Admission(calls[p]).result.ok)
              => Admission(calls[p]).auction = Unwrap(calls[p].auction))
    /\ [][\A p \in Procs :
            ( /\ calls[p].pc = "admit"
              /\ calls'[p] # calls[p]
              /\ ~Admission(calls[p]).result.ok )
            => /\ calls'[p].pc = "done"
               /\ calls'[p].result = Validation(Admission(calls[p]).result.err)
               /\ auctions' = auctions
               /\ bids' = bids]_vars

\* C20 witness: with a bid stored, a place-bid call was refused for its amount.
C20_RefusedForAmount ==
    /\ bids # << >>
    /\ \E p \in Procs :
          /\ calls[p].kind = "bid" /\ calls[p].pc = "done"
          /\ calls[p].result = Validation({"MustPlaceBidOverHighestBid"})

\* C21: every auction the create path persists has starts_at < expiry; a
\* command with starts_at >= expiry persists nothing.
C21_PersistedWindowNotEmpty ==
    \A id \in DOMAIN auctions : auctions[id].starts_at < auctions[id].expiry

CreateCalls == { p \in Procs : calls[p].kind = "create" /\ calls[p].pc = "done" }

Passed(p) == Unwrap(last[p])

\* C22: a create-auction call without a user returns Unauthorized and its
\* step leaves the store and the id sequence alone; a call with a user that
\* returns Ok returns the auction the store holds under the assigned id, with
\* that user as seller.
C22_CreateHandlerOutcome ==
    /\ [](\A p \in CreateCalls :
            IF Passed(p).user = None
            THEN /\ calls[p].result = Result("Unauthorized")
                 /\ Passed(p).returned = None
            ELSE /\ calls[p].result = Result("Ok")
                 /\ Passed(p).returned # None
                 /\ LET a == Unwrap(Passed(p).returned)
                    IN  /\ a.base.user = Unwrap(Passed(p).user)
                        /\ a.base.auction_id \in DOMAIN auctions
                        /\ a.base.auction_id # 0
                        /\ auctions[a.base.auction_id] = auction_row(a))
    /\ [][\A p \in Procs :
            (calls'[p].result = Result("Unauthorized") /\ calls[p].pc = "idle")
            => (auctions' = auctions /\ bids' = bids /\ seq' = seq)]_vars

C22_CreatedBySecondUser ==
    \E p \in CreateCalls :
        /\ Passed(p).user = Some("x2")
        /\ Passed(p).returned # None
        /\ \E q \in CreateCalls : Passed(q).user = None

\* C23: the id a repository create assigns is the id of no stored auction and
\* of no other create in flight, and the auction it returns is the one it was
\* passed apart from that id.
C23_CreateAssignsFreshId ==
    /\ [](\A p, q \in Procs :
            (p # q /\ calls[p].pc = "commit_auction" /\ calls[q].pc = "commit_auction")
            => Unwrap(calls[p].auction).base.auction_id
                 # Unwrap(calls[q].auction).base.auction_id)
    /\ [](\A p \in Procs :
            calls[p].pc = "commit_auction"
            => Unwrap(calls[p].auction).base.auction_id \notin DOMAIN auctions)
    /\ [](\A p \in CreateCalls :
            Passed(p).returned # None
            => \E id \in 1 .. seq :
                  Unwrap(Passed(p).returned) =
                      [create_auction(Passed(p).cmd, Unwrap(Passed(p).user))
                          EXCEPT !.base.auction_id = id])

C23_TwoCreatesInFlight ==
    /\ \A p \in Procs : calls[p].pc = "commit_auction"
    /\ Cardinality(DOMAIN auctions) = 0

HasBids(a, bs) == \A i \in 1 .. Len(bs) : \E j \in 1 .. Len(a.base.bids) : a.base.bids[j] = bs[i]

\* C24: when update_auction, called by the place-bid handler with the auction
\* its bid was admitted to, returns Ok, get_auction of that id then returns an
\* auction that has every bid of the updated auction, and get_auctions lists
\* that same auction.
C24_UpdatedBidsAreRead ==
    [][\A p \in Procs, id \in DOMAIN auctions :
          (/\ calls[p].kind = "bid"
           /\ calls[p].pc = "commit"
           /\ calls'[p].result = Result("Ok")
           /\ Unwrap(calls[p].auction).base.auction_id = id)
          => LET got == get_auction(id)'
                 list == get_auctions'
             IN  /\ got.err = "" /\ got.value # None
                 /\ HasBids(Unwrap(got.value), Unwrap(calls[p].auction).base.bids)
                 /\ list.err = ""
                 /\ Unwrap(got.value) \in list.value]_vars

C26_NoTraceWithoutCommit ==
    [][\A p \in Procs :
          (calls[p].pc # "done" /\ calls'[p].pc = "done" /\ calls'[p].result # Result("Ok"))
          => /\ auctions' = auctions
             /\ bids' = bids
             /\ get_auctions' = get_auctions
             /\ \A id \in 1 .. seq : get_auction(id)' = get_auction(id)]_vars

C26_CancelledAfterWrites ==
    /\ \E p, q \in Procs :
          /\ calls[p].kind = "create" /\ calls[p].result = Result("Cancelled")
          /\ calls[q].kind = "bid" /\ calls[q].result = Result("Cancelled")
    /\ seq = 2
    /\ DOMAIN auctions = {1}
    /\ bids = << >>

\* C27: the projection at `now` lists the bids get_bids(now) yields, in that
\* order, and nothing when get_bids yields nothing; for a TimedAscending
\* auction get_bids yields nothing before starts_at and the bids in the
\* order they were accepted from starts_at on.
C27_ProjectionListsGetBids ==
    last # None
    => LET a == TheAuction
           now == Asked.now
           shown == get_bids(a, now)
       IN  /\ Asked.model.bids =
                 IF shown = None THEN << >>
                 ELSE [i \in 1 .. Len(Unwrap(shown)) |-> BidModel(a, Unwrap(shown)[i])]
           /\ IsTimed(a)
                => IF now < a.base.starts_at
                   THEN shown = None /\ Asked.model.bids = << >>
                   ELSE /\ shown = Some(a.base.bids)
                        /\ Len(Asked.model.bids) = Len(a.base.bids)
                        /\ \A i \in 1 .. Len(a.base.bids) :
                              /\ a.base.bids[i].id = i
                              /\ Asked.model.bids[i].bidder = a.base.bids[i].user
                              /\ Asked.model.bids[i].amount = a.base.bids[i].amount

C27_TimedBidsHiddenBeforeStart ==
    /\ last # None
    /\ IsTimed(TheAuction)
    /\ Len(TheAuction.base.bids) = 2
    /\ Asked.now < TheAuction.base.starts_at
    /\ Asked.model.bids = << >>

\* C28: the place-bid endpoint answers Ok with 200, Unauthorized with 401,
\* Validation(UnknownAuction) with 404, every other Validation error set
\* with 400, and every other error with 500.
C28_StatusOfOutcome ==
    last # None
    => Asked.status =
          IF Asked.outcome.tag = "Ok" THEN 200
          ELSE IF Asked.outcome.tag = "Unauthorized" THEN 401
          ELSE IF Asked.outcome = Validation({"UnknownAuction"}) THEN 404
          ELSE IF Asked.outcome.tag = "Validation" THEN 400
          ELSE 500

\* C29: adding or subtracting two amounts succeeds exactly when their
\* currencies are equal, with the integer sum or difference in that currency,
\* and fails with CurrencyMismatch otherwise; comparing them gives an
\* ordering exactly when the currencies are equal and nothing otherwise.
C29_AmountArithmetic ==
    (Asked.op \in {"add", "sub", "partial_cmp"})
    => LET x == Asked.lhs
           y == Asked.rhs
           r == Asked.result
       IN  IF Asked.op = "partial_cmp"
           THEN IF x.currency = y.currency
                THEN /\ r # None
                     /\ (Unwrap(r) = "Less") = (x.value < y.value)
                     /\ (Unwrap(r) = "Equal") = (x.value = y.value)
                     /\ (Unwrap(r) = "Greater") = (x.value > y.value)
                ELSE r = None
           ELSE IF x.currency = y.currency
                THEN /\ r.tag = "Ok"
                     /\ r.value = Some(Amount(IF Asked.op = "add" THEN x.value + y.value
                                              ELSE x.value - y.value, x.currency))
                ELSE r = CurrencyMismatch

\* C30: for every amount, of any value and any currency code, NONE included,
\* parsing the string the amount is rendered as gives the amount back.
C30_ParseOfRendered ==
    (Asked.op = "from_str")
    => Asked.result = [tag |-> "Ok", value |-> Some(Asked.lhs)]

\* C31: an accepted TimedAscending bid admitted at time `now` sets ends_at to
\* the later of the previous effective end and now + time_frame, and the
\* entity has then not ended at any time up to now + time_frame.
C31_SoftCloseExtends ==
    (auction # None /\ IsTimed(TheAuction))
    => \A now \in Times, bid \in BidDatas :
          LET a == TheAuction
              r == try_add_bid(a, now, bid)
              extended == now + a.options.time_frame
          IN  r.result.ok
              => /\ r.auction.ends_at =
                       Some(IF extended > effective_end(a) THEN extended ELSE effective_end(a))
                 /\ \A t \in 0 .. extended : ~has_ended(r.auction, t)

C31_ExtendedPastExpiry ==
    /\ auction # None
    /\ IsTimed(TheAuction)
    /\ last = Some(Ok)
    /\ TheAuction.ends_at # None
    /\ Unwrap(TheAuction.ends_at) > TheAuction.base.expiry
    /\ ~has_ended(TheAuction, Unwrap(TheAuction.ends_at))

\* C32: when the pre-check of a bid finds an error, what try_add_bid returns
\* is the pre-check's error set and holds none of AlreadyPlacedBid,
\* MustPlaceBidOverHighestBid and MustRaiseWithAtLeast.
C32_OnlyPreCheckErrors ==
    (last # None /\ validate_bid(TheAuction, Unwrap(last).bid) # {})
    => /\ Unwrap(last).err = validate_bid(TheAuction, Unwrap(last).bid)
       /\ Unwrap(last).err \cap {"AlreadyPlacedBid", "MustPlaceBidOverHighestBid",
                                 "MustRaiseWithAtLeast"} = {}

\* C33: the place-bid handler answers an auction id that is not stored with
\* Validation(UnknownAuction), with or without a user, and a stored auction
\* without a user with Unauthorized; in both cases it returns at once, with
\* no admission and no transaction, and the store is left as it was.
C33_UnknownAuctionBeforeUser ==
    /\ [](\A user_id \in SysUsers, amount \in SysAmounts, id \in 1 .. (seq + 1) :
            LET c == handle_bid(user_id, amount, id)
                idle == [IdleCall EXCEPT !.kind = "bid", !.pc = "done"]
            IN  /\ id \notin DOMAIN auctions
                     => c = [idle EXCEPT !.result = Validation({"UnknownAuction"})]
                /\ (id \in DOMAIN auctions /\ get_auction(id).err = "" /\ user_id = None)
                     => c = [idle EXCEPT !.result = Result("Unauthorized")])
    /\ [][\A p \in Procs :
            (/\ calls[p].pc = "idle"
             /\ calls'[p].kind = "bid"
             /\ calls'[p].result \in {Validation({"UnknownAuction"}), Result("Unauthorized")})
            => (calls'[p].pc = "done" /\ auctions' = auctions /\ bids' = bids)]_vars

C33_BothRefusals ==
    \E p, q \in Procs :
        /\ calls[p].kind = "bid" /\ calls[p].result = Validation({"UnknownAuction"})
        /\ calls[q].kind = "bid" /\ calls[q].result = Result("Unauthorized")

\* C34: update_auction of an auction whose id is not stored fails with
\* NotFound at the load: the call returns in that step with no transaction
\* left and the tables as they were, no call gets past the load with an id
\* that is not stored, and no bids row names an auction that is not stored.
C34_UpdateUnknownIsNotFound ==
    /\ [][\A p \in Procs :
            (/\ calls[p].pc = "read"
             /\ Unwrap(calls[p].auction).base.auction_id \notin DOMAIN auctions
             /\ calls'[p] # calls[p])
            => /\ calls'[p] = Return(calls[p], Result("NotFound"))
               /\ bids' = bids
               /\ auctions' = auctions]_vars
    /\ [](\A p \in Procs :
            calls[p].pc \in {"header", "insert", "commit"}
            => Unwrap(calls[p].auction).base.auction_id \in DOMAIN auctions)
    /\ [](\A i \in 1 .. Len(bids) : bids[i].auction_id \in DOMAIN auctions)

C34_UpdateReturnedNotFound ==
    \E p \in Procs :
        /\ calls[p].kind = "update"
        /\ calls[p].result = Result("NotFound")
        /\ calls[p].tx = NoTx

\* C35: whenever try_get_amount_and_winner(now) yields a winner, has_ended(now)
\* holds for the same entity and time, so the projection never carries a
\* winner or a price with hasEnded false.
C35_WinnerOnlyAfterEnd ==
    last # None
    => /\ try_get_amount_and_winner(TheAuction, Asked.now) # None
            => has_ended(TheAuction, Asked.now)
       /\ (Asked.model.winner # None \/ Asked.model.price # None)
            => Asked.model.has_ended

\* C36: on a TimedAscending entity, at every time now from starts_at on at
\* which has_ended(now) is false, a bid stamped at now by a user other than the
\* seller, in the auction's currency, over the highest amount and at least
\* highest + min_raise (any amount when there is no bid yet), is accepted.
C36_OpenMeansAdmitted ==
    (auction # None /\ IsTimed(TheAuction))
    => \A now \in Times, bid \in BidDatas :
          LET a == TheAuction
          IN  (/\ ~has_ended(a, now)
               /\ now >= a.base.starts_at
               /\ bid.at = now
               /\ bid.user # a.base.user
               /\ bid.amount.currency = a.base.currency
               /\ a.base.bids # << >>
                    => /\ bid.amount.value > MaxValue(a.base.bids)
                       /\ bid.amount.value >= MaxValue(a.base.bids) + a.options.min_raise)
              => try_add_bid(a, now, bid).result.ok

\* C37: when the place-bid handler's update_auction commits for a
\* TimedAscending auction, get_auction of that id then returns an auction
\* with the effective end (ends_at if present, else expiry) of the entity
\* the handler persisted.
C37_EffectiveEndIsPersisted ==
    [][\A p \in Procs, id \in DOMAIN auctions :
          (/\ calls[p].kind = "bid"
           /\ calls[p].pc = "commit"
           /\ calls'[p].result = Result("Ok")
           /\ Unwrap(calls[p].auction).base.auction_id = id
           /\ IsTimed(Unwrap(calls[p].auction)))
          => LET got == get_auction(id)'
             IN  /\ got.err = "" /\ got.value # None
                 /\ effective_end(Unwrap(got.value))
                      = effective_end(Unwrap(calls[p].auction))]_vars

\* C38: in a TimedAscending entity the accepted amounts strictly increase in
\* insertion order, each is at least its predecessor plus min_raise, and the
\* highest bid is the last one, alone at the maximum.
C38_RaisesInOrder ==
    (auction # None /\ IsTimed(TheAuction))
    => LET bs == TheAuction.base.bids
       IN  /\ \A i \in 2 .. Len(bs) :
                 /\ bs[i].amount.value > bs[i - 1].amount.value
                 /\ bs[i].amount.value >= bs[i - 1].amount.value + TheAuction.options.min_raise
           /\ bs # << >>
                => /\ max_by_key(bs) = bs[Len(bs)]
                   /\ \A i \in 1 .. (Len(bs) - 1) :
                         bs[i].amount.value < bs[Len(bs)].amount.value

\* C39: for a SingleSealedBid entity with at least one bid, the winning user
\* reported after expiry is the same whether its option is Blind or Vickrey.
C39_SameWinnerBlindAndVickrey ==
    (auction # None /\ IsSealed(TheAuction) /\ TheAuction.base.bids # << >>)
    => \A now \in Times :
          now > TheAuction.base.expiry
          => LET blind == try_get_amount_and_winner(
                             [TheAuction EXCEPT !.options.kind = "Blind"], now)
                 vickrey == try_get_amount_and_winner(
                               [TheAuction EXCEPT !.options.kind = "Vickrey"], now)
             IN  /\ blind # None
                 /\ vickrey # None
                 /\ Unwrap(blind)[2] = Unwrap(vickrey)[2]

\* The bids bs, taken by id from k on, are admitted one after the other by
\* try_add_bid on entity a, each at some time and under the id it is stored with.
RECURSIVE Replays(_, _, _)
Replays(a, bs, k) ==
    IF k > Len(bs) THEN TRUE
    ELSE LET b == CHOOSE x \in { bs[i] : i \in 1 .. Len(bs) } : x.id = k
         IN  \E time \in Times :
                LET r == try_add_bid(a, time, BidData(b.user, b.amount, b.at))
                IN  /\ r.result.ok
                    /\ r.auction.base.bids[k] = b
                    /\ Replays(r.auction, bs, k + 1)

\* C40: whatever the interleaving of place-bid calls, the stored bids of every
\* auction have the ids 1..N, each once; a stored SingleSealedBid auction has
\* at most one bid per user; stored TimedAscending amounts strictly increase
\* with the id; and the auction read back holds a bid list that try_add_bid
\* calls in id order admit to the auction without bids.
C40_StoredBidsAreSequential ==
    \A id \in DOMAIN auctions :
        LET rows == SelectSeq2(bids, id)
            N == Len(rows)
            got == get_auction(id)
        IN  /\ { rows[i].id : i \in 1 .. N } = 1 .. N
            /\ \A i, j \in 1 .. N : rows[i].id = rows[j].id => i = j
            /\ auctions[id].auction_type = "SingleSealedBid"
                 => \A i, j \in 1 .. N : rows[i].user_id = rows[j].user_id => i = j
            /\ auctions[id].auction_type = "TimedAscending"
                 => \A i, j \in 1 .. N :
                       rows[i].id < rows[j].id => rows[i].amount_value < rows[j].amount_value
            /\ (got.err = "" /\ got.value # None)
                 => Replays([Unwrap(got.value) EXCEPT !.base.bids = << >>],
                            Unwrap(got.value).base.bids, 1)

\* C40 witness: two place-bid calls have returned Ok and an auction has two
\* stored bids.
C40_TwoBidsStoredByTwoCalls ==
    /\ \A p \in Procs : calls[p].kind = "bid" /\ calls[p].result = Result("Ok")
    /\ \E id \in DOMAIN auctions : Len(SelectSeq2(bids, id)) = 2
====
